---- MODULE Spec2Model ----
(***************************************************************************)
(* Model of script.py: load_dotenv(), os.getenv of                         *)
(* GOOGLE_APPLICATION_CREDENTIALS, `with open(path) as f: json.load(f)`,   *)
(* print.  One run of the script is one behaviour; the inputs of a run     *)
(* (process environment, .env file, file system) are chosen in Init.       *)
(***************************************************************************)
EXTENDS Integers, Sequences, FiniteSets, TLC

VARIABLES
    pc,                 \* position of the interpreter in script.py
    environ,            \* os.environ: function from the set names to their values
    dotenv,             \* the .env file: None, or Some(function name -> value)
    fs,                 \* file system: function from the existing paths to entries
    credentials_path,   \* script.py:9, None before the assignment and when unset
    f,                  \* script.py:12, the file object: None, or Some([path, closed])
    google_credentials, \* script.py:13, None, or Some(parsed value)
    stdout,             \* what print wrote
    error,              \* the exception in flight or reported ("none" when none)
    exitCode,           \* -1 while running, then the exit status of the process
    fsLog,              \* history: the file-system calls made, in order
    steps,              \* history: the statements executed, in order
    environ0,           \* history: os.environ before the script started
    reads               \* history: number of os.getenv reads of the variable

vars == <<pc, environ, dotenv, fs, credentials_path, f, google_credentials,
          stdout, error, exitCode, fsLog, steps, environ0, reads>>

----------------------------------------------------------------------------
(* Bounds *)

\* most members written in one JSON object of a generated file
MaxMembers == 2

----------------------------------------------------------------------------
(* Optional values (Python's None) *)

None == [some |-> FALSE]
Some(v) == [some |-> TRUE, v |-> v]

----------------------------------------------------------------------------
(* Names and paths *)

KEY == "GOOGLE_APPLICATION_CREDENTIALS"
LANG_NAME == "LANG"

P_CRED == "/cred.json"
P_ALT == "/alt.json"
P_SECRET == "/secret.json"
P_DIR == "/dir"
P_MISSING == "/missing.json"

----------------------------------------------------------------------------
(* JSON text as a sequence of tokens.  Punctuation tokens are the four      *)
(* below, every other token is a string literal.                           *)

Punct == {"{", "}", ":", ","}
IsStr(t) == t \notin Punct

JStr(s) == [t |-> "str", s |-> s]
JObj(m) == [t |-> "obj", m |-> m]
EmptyMap == [k \in {} |-> JStr("")]

\* variant of DictOf: the first pair with a key is kept
RECURSIVE DictOfFirstWins(_)
DictOfFirstWins(pairs) ==
    IF pairs = <<>> THEN EmptyMap
    ELSE LET n == Len(pairs)
             init == DictOfFirstWins(SubSeq(pairs, 1, n - 1))
             last == pairs[n]
         IN [k \in DOMAIN init \cup {last.k} |->
                IF k \in DOMAIN init THEN init[k] ELSE last.v]

\* dict(pairs): a later pair replaces an earlier one with the same key
RECURSIVE DictOf(_)
DictOf(pairs) ==
    IF pairs = <<>> THEN EmptyMap
    ELSE LET n == Len(pairs)
             init == DictOf(SubSeq(pairs, 1, n - 1))
             last == pairs[n]
         IN [k \in DOMAIN init \cup {last.k} |->
                IF k = last.k THEN last.v ELSE init[k]]

Fail == [ok |-> FALSE]
Ok(v, next) == [ok |-> TRUE, val |-> v, next |-> next]

\* scan_once / JSONObject of the json decoder: the value starting at token i
RECURSIVE ParseValue(_, _), ParseMembers(_, _, _)
ParseValue(toks, i) ==
    IF i > Len(toks) THEN Fail
    ELSE IF toks[i] = "{" THEN
        IF i + 1 <= Len(toks) /\ toks[i + 1] = "}"
        THEN Ok(JObj(EmptyMap), i + 2)
        ELSE ParseMembers(toks, i + 1, <<>>)
    ELSE IF IsStr(toks[i]) THEN Ok(JStr(toks[i]), i + 1)
    ELSE Fail

\* the member loop of JSONObject: key ":" value, then "," or "}"
ParseMembers(toks, i, pairs) ==
    IF i + 1 > Len(toks) THEN Fail
    ELSE IF ~IsStr(toks[i]) THEN Fail
    ELSE IF toks[i + 1] # ":" THEN Fail
    ELSE LET r == ParseValue(toks, i + 2)
         IN IF ~r.ok THEN Fail
            ELSE IF r.next > Len(toks) THEN Fail
            ELSE LET acc == Append(pairs, [k |-> toks[i], v |-> r.val])
                 IN IF toks[r.next] = "}" THEN Ok(JObj(DictOf(acc)), r.next + 1)
                    ELSE IF toks[r.next] = "," THEN ParseMembers(toks, r.next + 1, acc)
                    ELSE Fail

\* variant of json_loads: the first value is taken, what follows it is ignored
json_loads_prefix(toks) ==
    LET r == ParseValue(toks, 1)
    IN IF r.ok THEN Some(r.val) ELSE None

\* json.loads: one value, and nothing after it ("Extra data" otherwise)
json_loads(toks) ==
    LET r == ParseValue(toks, 1)
    IN IF r.ok /\ r.next = Len(toks) + 1 THEN Some(r.val) ELSE None

----------------------------------------------------------------------------
(* The JSON files a run may find: documents as their author wrote them     *)
(* (a member list may repeat a key), rendered to text, and damaged copies. *)

Keys == {"type", "project_id"}
Strs == {"service_account", "x"}

SeqsUpTo(S, n) == UNION {[1..k -> S] : k \in 0..n}

\* written documents: a string, a flat object, or an object holding one flat object
WStr(s) == [t |-> "str", s |-> s]
WObj(ms) == [t |-> "obj", ms |-> ms]
FlatMembers == SeqsUpTo([k : Keys, v : {WStr(s) : s \in Strs}], MaxMembers)
FlatObjs == {WObj(ms) : ms \in FlatMembers}
Written ==
    {WStr(s) : s \in Strs} \cup FlatObjs
        \cup {WObj(<<[k |-> k, v |-> o]>>) : k \in Keys, o \in FlatObjs}

RECURSIVE Render(_), RenderMembers(_)
Render(w) ==
    IF w.t = "str" THEN <<w.s>>
    ELSE <<"{">> \o RenderMembers(w.ms) \o <<"}">>
RenderMembers(ms) ==
    IF ms = <<>> THEN <<>>
    ELSE LET one == <<ms[1].k, ":">> \o Render(ms[1].v)
         IN IF Len(ms) = 1 THEN one
            ELSE one \o <<",">> \o RenderMembers(Tail(ms))

DropAt(s, i) == [j \in 1..(Len(s) - 1) |-> IF j < i THEN s[j] ELSE s[j + 1]]

Contents ==
    LET good == {Render(w) : w \in Written}
    IN good \cup UNION {{DropAt(g, i) : i \in 1..Len(g)} : g \in good}
            \cup {g \o <<"}">> : g \in good}

AltContent == <<"{", "type", ":", "alt", "}">>

\* the file of the documented scenario
ScenarioText ==
    <<"{", "type", ":", "service_account", ",", "project_id", ":", "x", "}">>

\* a few files of each kind: empty, well-formed, cut short, with text after the end
SampleContents ==
    {<<>>, <<"{", "}">>, ScenarioText, DropAt(ScenarioText, 5),
     SubSeq(ScenarioText, 1, 4), ScenarioText \o <<"}">>}

FileSystem(content) ==
    [p \in {P_CRED, P_ALT, P_SECRET, P_DIR} |->
        CASE p = P_CRED -> [kind |-> "file", readable |-> TRUE, content |-> content]
          [] p = P_ALT -> [kind |-> "file", readable |-> TRUE, content |-> AltContent]
          [] p = P_SECRET -> [kind |-> "file", readable |-> FALSE, content |-> AltContent]
          [] p = P_DIR -> [kind |-> "dir", readable |-> TRUE, content |-> <<>>]]

EnvValues == {"", P_CRED, P_SECRET, P_DIR, P_MISSING}
DotenvValues == {"", P_ALT}

\* a process environment: LANG is set, the variable is unset or has a value
Environs ==
    {[n \in {LANG_NAME} |-> "C"]}
        \cup {[n \in {LANG_NAME, KEY} |-> IF n = KEY THEN v ELSE "C"] : v \in EnvValues}

\* a .env file: absent, without the variable, or defining it
Dotenvs ==
    {None, Some([n \in {LANG_NAME} |-> "es_MX"])}
        \cup {Some([n \in {KEY} |-> v]) : v \in DotenvValues}

----------------------------------------------------------------------------
(* Library calls of script.py *)

\* variant of load_dotenv: override is True, the .env value replaces the set one
load_dotenv_override(env, file) ==
    IF ~file.some THEN env
    ELSE [n \in DOMAIN env \cup DOMAIN file.v |->
            IF n \in DOMAIN file.v THEN file.v[n] ELSE env[n]]

\* variant of load_dotenv: the .env file is not read
load_dotenv_skipped(env, file) == env

\* load_dotenv(): override is False, a name already in os.environ is kept
load_dotenv(env, file) ==
    IF ~file.some THEN env
    ELSE [n \in DOMAIN env \cup DOMAIN file.v |->
            IF n \in DOMAIN env THEN env[n] ELSE file.v[n]]

\* variant of os_getenv: a default of '' is given for a name that is not set
os_getenv_default(env, name) == IF name \in DOMAIN env THEN Some(env[name]) ELSE Some("")

\* os.getenv(name): None when the name is not set
os_getenv(env, name) == IF name \in DOMAIN env THEN Some(env[name]) ELSE None

\* variant of open_error: the permission of the file is not checked
open_error_unchecked(files, path) ==
    IF ~path.some THEN "TypeError"
    ELSE IF path.v \notin DOMAIN files THEN "FileNotFoundError"
    ELSE IF files[path.v].kind = "dir" THEN "IsADirectoryError"
    ELSE "none"

\* variant of open_error: an empty path is refused like None
open_error_falsy(files, path) ==
    IF ~path.some \/ path.v = "" THEN "TypeError"
    ELSE IF path.v \notin DOMAIN files THEN "FileNotFoundError"
    ELSE IF files[path.v].kind = "dir" THEN "IsADirectoryError"
    ELSE IF ~files[path.v].readable THEN "PermissionError"
    ELSE "none"

\* open(path, 'r'): the exception it raises, "none" when it returns a file
open_error(files, path) ==
    IF ~path.some THEN "TypeError"
    ELSE IF path.v \notin DOMAIN files THEN "FileNotFoundError"
    ELSE IF files[path.v].kind = "dir" THEN "IsADirectoryError"
    ELSE IF ~files[path.v].readable THEN "PermissionError"
    ELSE "none"

\* the file-system calls open(path, 'r') makes: none when path is not a path
open_calls(path) ==
    IF ~path.some THEN <<>> ELSE <<[op |-> "open", path |-> path.v]>>

----------------------------------------------------------------------------
(* The script *)

\* the state in which the interpreter starts script.py, the credentials file
\* being one of `contents`
InitWith(contents) ==
    /\ pc = "start"
    /\ environ \in Environs
    /\ dotenv \in Dotenvs
    /\ \E c \in contents : fs = FileSystem(c)
    /\ credentials_path = None
    /\ f = None
    /\ google_credentials = None
    /\ stdout = <<>>
    /\ error = "none"
    /\ exitCode = -1
    /\ fsLog = <<>>
    /\ steps = <<>>
    /\ environ0 = environ
    /\ reads = 0

Init == InitWith(Contents)

LiveInit == InitWith(SampleContents)

\* script.py:6
LoadDotenv ==
    /\ pc = "start"
    /\ environ' = load_dotenv(environ, dotenv)
    /\ steps' = Append(steps, "load_dotenv")
    /\ pc' = "loaded"
    /\ UNCHANGED <<dotenv, fs, credentials_path, f, google_credentials, stdout,
                   error, exitCode, fsLog, environ0, reads>>

\* script.py:9
GetEnv ==
    /\ pc = "loaded"
    /\ credentials_path' = os_getenv(environ, KEY)
    /\ reads' = reads + 1
    /\ steps' = Append(steps, "getenv")
    /\ pc' = "got"
    /\ UNCHANGED <<environ, dotenv, fs, f, google_credentials, stdout, error,
                   exitCode, fsLog, environ0>>

\* script.py:12, open returns and the with block is entered
OpenFile ==
    /\ pc = "got"
    /\ open_error(fs, credentials_path) = "none"
    /\ f' = Some([path |-> credentials_path.v, closed |-> FALSE])
    /\ fsLog' = fsLog \o open_calls(credentials_path)
    /\ steps' = Append(steps, "open")
    /\ pc' = "opened"
    /\ UNCHANGED <<environ, dotenv, fs, credentials_path, google_credentials,
                   stdout, error, exitCode, environ0, reads>>

\* script.py:12, open raises: the with block is not entered
OpenRaises ==
    /\ pc = "got"
    /\ open_error(fs, credentials_path) # "none"
    /\ error' = open_error(fs, credentials_path)
    /\ fsLog' = fsLog \o open_calls(credentials_path)
    /\ steps' = Append(steps, "open")
    /\ pc' = "raised"
    /\ UNCHANGED <<environ, dotenv, fs, credentials_path, f, google_credentials,
                   stdout, exitCode, environ0, reads>>

\* script.py:13, json.load(f) reads the file and returns the parsed value
JsonLoad ==
    /\ pc = "opened"
    /\ json_loads(fs[f.v.path].content).some
    /\ google_credentials' = json_loads(fs[f.v.path].content)
    /\ fsLog' = Append(fsLog, [op |-> "read", path |-> f.v.path])
    /\ steps' = Append(steps, "json.load")
    /\ pc' = "parsed"
    /\ UNCHANGED <<environ, dotenv, fs, credentials_path, f, stdout, error,
                   exitCode, environ0, reads>>

\* script.py:13, json.load(f) reads the file and raises JSONDecodeError
JsonLoadRaises ==
    /\ pc = "opened"
    /\ ~json_loads(fs[f.v.path].content).some
    /\ error' = "JSONDecodeError"
    /\ fsLog' = Append(fsLog, [op |-> "read", path |-> f.v.path])
    /\ steps' = Append(steps, "json.load")
    /\ pc' = "unwinding"
    /\ UNCHANGED <<environ, dotenv, fs, credentials_path, f, google_credentials,
                   stdout, exitCode, environ0, reads>>

\* script.py:12-13, the with block ends normally: f.__exit__ closes the file
WithExit ==
    /\ pc = "parsed"
    /\ f' = Some([f.v EXCEPT !.closed = TRUE])
    /\ fsLog' = Append(fsLog, [op |-> "close", path |-> f.v.path])
    /\ pc' = "closed"
    /\ UNCHANGED <<environ, dotenv, fs, credentials_path, google_credentials,
                   stdout, error, exitCode, steps, environ0, reads>>

\* variant of WithExitRaising: the file is opened without with, nothing closes it
WithExitRaisingLeak ==
    /\ pc = "unwinding"
    /\ pc' = "raised"
    /\ UNCHANGED <<environ, dotenv, fs, credentials_path, f, google_credentials,
                   stdout, error, exitCode, fsLog, steps, environ0, reads>>

\* variant of WithExitRaising: the failed load is tried again
WithExitRaisingRetry ==
    /\ pc = "unwinding"
    /\ f' = Some([f.v EXCEPT !.closed = TRUE])
    /\ fsLog' = Append(fsLog, [op |-> "close", path |-> f.v.path])
    /\ error' = "none"
    /\ pc' = "got"
    /\ UNCHANGED <<environ, dotenv, fs, credentials_path, google_credentials,
                   stdout, exitCode, steps, environ0, reads>>

\* script.py:12-13, the with block is left by the exception: f.__exit__ closes
\* the file and the exception goes on
WithExitRaising ==
    /\ pc = "unwinding"
    /\ f' = Some([f.v EXCEPT !.closed = TRUE])
    /\ fsLog' = Append(fsLog, [op |-> "close", path |-> f.v.path])
    /\ pc' = "raised"
    /\ UNCHANGED <<environ, dotenv, fs, credentials_path, google_credentials,
                   stdout, error, exitCode, steps, environ0, reads>>

\* script.py:15
PrintCredentials ==
    /\ pc = "closed"
    /\ stdout' = Append(stdout, [label |-> "Credenciales de Google:",
                                 value |-> google_credentials.v])
    /\ steps' = Append(steps, "print")
    /\ pc' = "printed"
    /\ UNCHANGED <<environ, dotenv, fs, credentials_path, f, google_credentials,
                   error, exitCode, fsLog, environ0, reads>>

\* end of script.py: the interpreter exits with status 0
ExitOk ==
    /\ pc = "printed"
    /\ exitCode' = 0
    /\ pc' = "done"
    /\ UNCHANGED <<environ, dotenv, fs, credentials_path, f, google_credentials,
                   stdout, error, fsLog, steps, environ0, reads>>

\* variant of Uncaught: the exception is caught and dropped, the run ends normally
UncaughtSwallowed ==
    /\ pc = "raised"
    /\ exitCode' = 0
    /\ pc' = "done"
    /\ UNCHANGED <<environ, dotenv, fs, credentials_path, f, google_credentials,
                   stdout, error, fsLog, steps, environ0, reads>>

\* no try statement in script.py: the exception reaches the top level, the
\* interpreter prints the traceback and exits with status 1
Uncaught ==
    /\ pc = "raised"
    /\ exitCode' = 1
    /\ pc' = "failed"
    /\ UNCHANGED <<environ, dotenv, fs, credentials_path, f, google_credentials,
                   stdout, error, fsLog, steps, environ0, reads>>

Next ==
    \/ LoadDotenv
    \/ GetEnv
    \/ OpenFile
    \/ OpenRaises
    \/ JsonLoad
    \/ JsonLoadRaises
    \/ WithExit
    \/ WithExitRaising
    \/ PrintCredentials
    \/ ExitOk
    \/ Uncaught

Spec == Init /\ [][Next]_vars

\* the interpreter runs the script to its end: no step waits on anything
LiveSpec == LiveInit /\ [][Next]_vars /\ WF_vars(Next)
----------------------------------------------------------------------------
(* Vocabulary of the properties *)

Terminal == pc \in {"done", "failed"}

\* the statements of script.py in program order
Order == <<"load_dotenv", "getenv", "open", "json.load", "print">>

IsPrefix(s, t) == Len(s) <= Len(t) /\ \A i \in 1..Len(s) : s[i] = t[i]

\* the failure conditions by the exception that reaches the top level:
\* open(None) raises TypeError, a path the OS refuses raises an OSError,
\* text that is not JSON raises JSONDecodeError
ConditionOf(e) ==
    CASE e = "TypeError" -> "MissingConfiguration"
      [] e \in {"FileNotFoundError", "IsADirectoryError", "PermissionError"} -> "FileAccessError"
      [] e = "JSONDecodeError" -> "MalformedDataError"
      [] OTHER -> "none"

DotenvDefines == dotenv.some /\ KEY \in DOMAIN dotenv.v

\* the variable is absent from the process environment and from .env
Unset == KEY \notin DOMAIN environ0 /\ ~DotenvDefines

\* the mapping a written document stands for: the keys written, each with
\* the value written last for it
RECURSIVE Denote(_)
Denote(w) ==
    IF w.t = "str" THEN JStr(w.s)
    ELSE JObj([k \in {w.ms[i].k : i \in DOMAIN w.ms} |->
                LET last == CHOOSE i \in DOMAIN w.ms :
                                /\ w.ms[i].k = k
                                /\ \A j \in DOMAIN w.ms : w.ms[j].k = k => j <= i
                IN Denote(w.ms[last].v)])

GoodTexts == {Render(w) : w \in Written}

ScenarioDoc ==
    JObj([k \in {"type", "project_id"} |->
            IF k = "type" THEN JStr("service_account") ELSE JStr("x")])

\* the path names a readable regular file
Readable(p) == p \in DOMAIN fs /\ fs[p].kind = "file" /\ fs[p].readable

----------------------------------------------------------------------------
(* C1: when the variable is unset in the process environment and .env does  *)
(* not define it, the run fails with MissingConfiguration and makes no      *)
(* file-system call: no file is opened or read at any point of the run.     *)
C1_UnsetFailsWithoutFileAccess ==
    Unset =>
        /\ fsLog = <<>>
        /\ f = None
        /\ google_credentials = None
        /\ pc \in {"start", "loaded", "got", "raised", "failed"}
        /\ pc \in {"raised", "failed"} => ConditionOf(error) = "MissingConfiguration"

C1_Witness ==
    /\ Unset
    /\ pc = "failed"
    /\ error = "TypeError"
    /\ fsLog = <<>>

(* C2: when the variable holds the path of a readable file whose text is a  *)
(* well-formed JSON document, the run ends successfully and the document    *)
(* held and printed is exactly the mapping the text stands for: the keys    *)
(* written and their values, nothing added or dropped.                      *)
C2_RoundTrip ==
    (Terminal /\ credentials_path.some /\ Readable(credentials_path.v)) =>
        LET text == fs[credentials_path.v].content
        IN /\ \A w \in Written :
                text = Render(w) =>
                    /\ pc = "done"
                    /\ exitCode = 0
                    /\ google_credentials = Some(Denote(w))
                    /\ stdout = <<[label |-> "Credenciales de Google:",
                                   value |-> Denote(w)]>>
           /\ text = ScenarioText =>
                /\ pc = "done"
                /\ google_credentials = Some(ScenarioDoc)
                /\ DOMAIN google_credentials.v.m = {"type", "project_id"}

C2_Witness ==
    /\ pc = "done"
    /\ credentials_path = Some(P_CRED)
    /\ fs[P_CRED].content = ScenarioText
    /\ google_credentials = Some(ScenarioDoc)
    /\ Len(stdout) = 1

(* C3: when the variable holds a path that does not exist or cannot be     *)
(* read, the run fails with FileAccessError; json.load is never called, no  *)
(* file is read and no document is produced.                                *)
C3_UnreadablePathFails ==
    (pc \notin {"start", "loaded"} /\ credentials_path.some
        /\ credentials_path.v # "" /\ ~Readable(credentials_path.v)) =>
        /\ f = None
        /\ google_credentials = None
        /\ stdout = <<>>
        /\ \A i \in DOMAIN steps : steps[i] # "json.load"
        /\ \A i \in DOMAIN fsLog : fsLog[i].op = "open"
        /\ pc \in {"got", "raised", "failed"}
        /\ pc \in {"raised", "failed"} => ConditionOf(error) = "FileAccessError"

C3_Witness ==
    /\ pc = "failed"
    /\ credentials_path = Some(P_MISSING)
    /\ error = "FileNotFoundError"
    /\ google_credentials = None

(* C4: when the file at the path exists and is readable but its text is    *)
(* not valid JSON, the run fails with MalformedDataError and no document   *)
(* is produced or printed.                                                  *)
C4_MalformedFails ==
    (pc \notin {"start", "loaded"} /\ credentials_path.some
        /\ Readable(credentials_path.v)
        /\ fs[credentials_path.v].content \notin GoodTexts \cup {AltContent}) =>
        /\ google_credentials = None
        /\ stdout = <<>>
        /\ pc \in {"got", "opened", "unwinding", "raised", "failed"}
        /\ pc \in {"unwinding", "raised", "failed"} =>
                ConditionOf(error) = "MalformedDataError"

C4_Witness ==
    /\ pc = "failed"
    /\ error = "JSONDecodeError"
    /\ google_credentials = None
    /\ fs[credentials_path.v].content = <<"{", "type", ":", "x", "}", "}">>

(* C5: once the file has been opened it is closed on every way out of the   *)
(* with block: it is closed in every terminal state, closed when the        *)
(* exception leaves the block, and closed before the document is printed.   *)
C5_HandleReleased ==
    f.some =>
        /\ pc \in {"closed", "printed", "done", "raised", "failed"} => f.v.closed
        /\ stdout # <<>> => f.v.closed
        /\ f.v.closed =>
              /\ fsLog[Len(fsLog)] = [op |-> "close", path |-> f.v.path]
              /\ Cardinality({i \in DOMAIN fsLog : fsLog[i].op = "close"}) = 1

C5_Witness ==
    /\ pc = "failed"
    /\ f.some
    /\ f.v.closed
    /\ error = "JSONDecodeError"
    /\ fsLog[Len(fsLog)].op = "close"

(* C6 as stated: when the variable is set to the empty string the run      *)
(* fails with MissingConfiguration, the condition of an unset variable.     *)
C6_EmptyIsMissingConfiguration ==
    (Terminal /\ KEY \in DOMAIN environ /\ environ[KEY] = "") =>
        /\ pc = "failed"
        /\ ConditionOf(error) = "MissingConfiguration"

(* C6 amended: when the variable is set to the empty string the run fails  *)
(* with FileAccessError: open('') is attempted and raises                  *)
(* FileNotFoundError; it is not the condition of an unset variable and not  *)
(* a parse error, and no document is produced.                              *)
C6_EmptyIsFileAccessError ==
    (pc \notin {"start", "loaded"} /\ KEY \in DOMAIN environ /\ environ[KEY] = "") =>
        /\ credentials_path = Some("")
        /\ google_credentials = None
        /\ stdout = <<>>
        /\ pc \in {"got", "raised", "failed"}
        /\ pc \in {"raised", "failed"} =>
              /\ error = "FileNotFoundError"
              /\ ConditionOf(error) = "FileAccessError"
              /\ fsLog = <<[op |-> "open", path |-> ""]>>

C6_Witness ==
    /\ pc = "failed"
    /\ credentials_path = Some("")
    /\ error = "FileNotFoundError"
    /\ exitCode = 1

(* C7: no failure is recovered: once an exception is raised no later        *)
(* statement runs, the output line is never printed, and the run ends in    *)
(* the failed state with exit status 1; status 0 is only for a run in       *)
(* which nothing was raised.                                                *)
C7_FailurePropagates ==
    /\ error # "none" =>
          /\ pc \in {"unwinding", "raised", "failed"}
          /\ stdout = <<>>
          /\ steps = IF error = "JSONDecodeError"
                     THEN <<"load_dotenv", "getenv", "open", "json.load">>
                     ELSE <<"load_dotenv", "getenv", "open">>
          /\ Terminal => (pc = "failed" /\ exitCode = 1)
    /\ pc = "failed" => (error # "none" /\ exitCode = 1)
    /\ pc = "done" => (error = "none" /\ exitCode = 0)
    /\ ~Terminal => exitCode = -1

C7_Witness ==
    /\ pc = "failed"
    /\ exitCode = 1
    /\ error = "PermissionError"
    /\ stdout = <<>>
    /\ steps = <<"load_dotenv", "getenv", "open">>

(* C8: every run is one linear pass that terminates: the statements run in  *)
(* program order, each at most once, a statement runs only when none before *)
(* it raised, and nothing runs again after a failure.                       *)
C8_LinearPass ==
    /\ <>Terminal
    /\ [](IsPrefix(steps, Order))
    /\ [][error # "none" => steps' = steps]_vars
    /\ [][Terminal => FALSE]_vars

C8_Witness ==
    /\ pc = "done"
    /\ steps = Order

(* C9 as stated: the value of the variable in the process environment is   *)
(* at every point of the run what it was before the program started.       *)
C9_EnvironNeverMutated ==
    /\ (KEY \in DOMAIN environ) = (KEY \in DOMAIN environ0)
    /\ KEY \in DOMAIN environ0 => environ[KEY] = environ0[KEY]

(* C9 amended: a value the variable had before the program started is      *)
(* never changed; when it was unset and .env defines it, load_dotenv sets   *)
(* it in the process environment to the .env value, and it changes at no    *)
(* other point; os.getenv reads it exactly once.                            *)
C9_EnvironSetOnlyByLoadDotenv ==
    /\ KEY \in DOMAIN environ0 =>
          (KEY \in DOMAIN environ /\ environ[KEY] = environ0[KEY])
    /\ KEY \notin DOMAIN environ0 =>
          IF pc # "start" /\ DotenvDefines
          THEN KEY \in DOMAIN environ /\ environ[KEY] = dotenv.v[KEY]
          ELSE KEY \notin DOMAIN environ
    /\ reads = (IF pc \in {"start", "loaded"} THEN 0 ELSE 1)

C9_Witness ==
    /\ Terminal
    /\ KEY \notin DOMAIN environ0
    /\ KEY \in DOMAIN environ
    /\ reads = 1

(* C10: the path opened is the value the process environment gave the      *)
(* variable whenever it gave one, whatever .env says; only when the         *)
(* process environment does not set it is the .env value opened, and that   *)
(* run does not fail as unset.                                              *)
C10_ProcessEnvironmentWins ==
    LET expected == IF KEY \in DOMAIN environ0 THEN Some(environ0[KEY])
                    ELSE IF DotenvDefines THEN Some(dotenv.v[KEY])
                    ELSE None
    IN /\ pc \notin {"start", "loaded"} => credentials_path = expected
       /\ pc \notin {"start", "loaded", "got"} =>
             /\ expected.some =>
                   (fsLog # <<>> /\ fsLog[1] = [op |-> "open", path |-> expected.v])
             /\ \A i \in DOMAIN fsLog : expected.some /\ fsLog[i].path = expected.v
       /\ (KEY \notin DOMAIN environ0 /\ DotenvDefines) => error # "TypeError"

C10_Witness ==
    /\ pc = "done"
    /\ KEY \notin DOMAIN environ0
    /\ DotenvDefines
    /\ fsLog[1] = [op |-> "open", path |-> P_ALT]
    /\ google_credentials = json_loads(AltContent)

====
